---- MODULE Spec2Model ----
(***************************************************************************)
(* A model of deb-strip-copyright: the restricted glob compiler and        *)
(* matcher (src/src/glob.rs), the deb822 control-file parser               *)
(* (src/src/deb822.rs) and the Files-Excluded policy built from a parsed   *)
(* document (src/src/deb822/copyright.rs).                                 *)
(*                                                                         *)
(* Strings are sequences of one-character strings, so that every scan,     *)
(* trim, split and prefix test is computed character by character as the   *)
(* Rust code computes it.                                                  *)
(***************************************************************************)
EXTENDS Integers, Sequences, FiniteSets, TLC

VARIABLES
  pc,        \* position of the driver: which call has returned last
  token,     \* the &str handed to Glob::from_str
  glob,      \* the Result<Glob> that Glob::from_str returned
  subject,   \* the string handed to Glob::matches
  result,    \* what Glob::matches did: "true", "false" or a panic
  s_slice,   \* the cursor of Glob::matches (what is left of the subject) at its return
  source,    \* the text handed to Deb822File::from_str
  deb,       \* the Result<Deb822File> that Deb822File::from_str returned
  copyright, \* the CopyrightFile that CopyrightFile::new returned
  path,      \* the path handed to CopyrightFile::is_path_excluded
  excluded,  \* what CopyrightFile::is_path_excluded returned
  archive,       \* the paths of the entries of the input tar archive, in order
  dry_run,       \* Strip's --dry-run flag
  tar_xz_writer, \* Strip::do_it's writer: None, or Some(the paths appended so far)
  keep_count,    \* Strip::do_it's keep_count
  total_count    \* Strip::do_it's total_count

globVars == <<token, glob, subject, result, s_slice>>
docVars == <<source, deb, copyright, path, excluded>>
stripVars == <<archive, dry_run, tar_xz_writer, keep_count, total_count>>
vars == <<pc, token, glob, subject, result, s_slice,
          source, deb, copyright, path, excluded,
          archive, dry_run, tar_xz_writer, keep_count, total_count>>

(***************************************************************************)
(* Bounds of the model.                                                    *)
(***************************************************************************)
MaxTokenLen == 4
MaxSubjectLen == 4
MaxLines == 4
MaxEntries == 3

(***************************************************************************)
(* String helpers (Rust's str methods on sequences of characters).         *)
(***************************************************************************)
\* &s[idx..] for a 0-based index idx
SliceFrom(s, idx) == SubSeq(s, idx + 1, Len(s))

\* s.starts_with(lit) / the test of s.strip_prefix(lit)
IsPrefix(lit, s) == Len(lit) <= Len(s) /\ SubSeq(s, 1, Len(lit)) = lit

\* s.find(c) for a char c: the 0-based index of its first occurrence, -1 for None
RECURSIVE FindFrom(_, _, _)
FindFrom(s, c, i) ==
  IF i > Len(s) THEN -1
  ELSE IF s[i] = c THEN i - 1
  ELSE FindFrom(s, c, i + 1)

Find(s, c) == FindFrom(s, c, 1)

\* all sequences over S of length at most n
RECURSIVE SeqsUpTo(_, _)
SeqsUpTo(S, n) ==
  IF n = 0 THEN {<<>>}
  ELSE LET shorter == SeqsUpTo(S, n - 1)
       IN shorter \cup {Append(s, c) : s \in shorter, c \in S}

(***************************************************************************)
(* src/src/glob.rs                                                         *)
(***************************************************************************)
Literal(lit) == [kind |-> "Literal", lit |-> lit]
Star == [kind |-> "Star", lit |-> <<>>]
Question == [kind |-> "Question", lit |-> <<>>]

GlobOk(segments) == [ok |-> TRUE, segments |-> segments, err |-> "none"]
GlobErr(msg) == [ok |-> FALSE, segments |-> <<>>, err |-> msg]

\* the characters a backslash may escape (glob.rs line 102)
IsEscapableNoQuestion(c) == c \in {"\\", "*"}
IsEscapable(c) == c \in {"\\", "*", "?"}

\* `if !string.is_empty() { segments.push(Literal(string)) }`
PushLiteral(segments, string) ==
  IF string # <<>> THEN Append(segments, Literal(string)) ELSE segments

\* prev_ok: may the wildcard c follow the last segment pushed so far?
PrevOkArmsSwapped(segments, c) ==
  IF segments = <<>> THEN TRUE
  ELSE LET prev == segments[Len(segments)]
       IN CASE prev.kind = "Literal" -> TRUE
            [] prev.kind = "Star" -> c # "*"
            [] prev.kind = "Question" -> FALSE
PrevOk(segments, c) ==
  IF segments = <<>> THEN TRUE
  ELSE LET prev == segments[Len(segments)]
       IN CASE prev.kind = "Literal" -> TRUE
            [] prev.kind = "Star" -> FALSE
            [] prev.kind = "Question" -> c # "*"

\* the `for c in s.chars()` loop of from_str, from the i-th character on
RECURSIVE FromStrLoop(_, _, _, _, _)
FromStrLoop(s, i, segments, string, escape_on) ==
  IF i > Len(s) THEN GlobOk(PushLiteral(segments, string))
  ELSE LET c == s[i] IN
    IF escape_on THEN
      IF IsEscapable(c)
      THEN FromStrLoop(s, i + 1, segments, Append(string, c), FALSE)
      ELSE GlobErr("character cannot be escaped")
    ELSE IF c = "\\" THEN FromStrLoop(s, i + 1, segments, string, TRUE)
    ELSE IF c \in {"*", "?"} THEN
      LET pushed == PushLiteral(segments, string) IN
      IF ~PrevOk(pushed, c)
      THEN GlobErr("cannot have a star next to another wildcard")
      ELSE FromStrLoop(s, i + 1,
                       Append(pushed, IF c = "*" THEN Star ELSE Question),
                       <<>>, FALSE)
    ELSE FromStrLoop(s, i + 1, segments, Append(string, c), FALSE)

FromStr(s) == FromStrLoop(s, 1, <<>>, <<>>, FALSE)

IsEmpty(segments) == segments = <<>>

MatchReturn(res, rest) == [result |-> res, s_slice |-> rest]

\* the value returned once the `while let` loop has walked every segment
AfterAllSegmentsAnchored(rest) == IF rest = <<>> THEN "true" ELSE "false"
AfterAllSegments(rest) == "true"

\* GlobSegment::Question: char_indices().next() is Some((0, first char))
QuestionRest(rest) ==
  LET idx == 0 IN SliceFrom(rest, idx)

\* the `while let Some(seg) = peeker.next()` loop of matches, from segment k on
RECURSIVE MatchLoop(_, _, _)
MatchLoop(segments, k, rest) ==
  IF k > Len(segments) THEN MatchReturn(AfterAllSegments(rest), rest)
  ELSE LET seg == segments[k] IN
    CASE seg.kind = "Literal" ->
           IF IsPrefix(seg.lit, rest)
           THEN MatchLoop(segments, k + 1, SliceFrom(rest, Len(seg.lit)))
           ELSE MatchReturn("false", rest)
      [] seg.kind = "Question" ->
           IF rest # <<>>
           THEN MatchLoop(segments, k + 1, QuestionRest(rest))
           ELSE MatchReturn("false", rest)
      [] seg.kind = "Star" ->
           IF k = Len(segments) THEN MatchReturn("true", rest)
           ELSE LET next_seg == segments[k + 1] IN
             IF next_seg.kind # "Literal"
             THEN MatchReturn("panic: cannot have a star followed by a wildcard", rest)
             ELSE IF next_seg.lit = <<>>
             THEN MatchReturn("panic: cannot have an empty Literal glob segment", rest)
             ELSE LET start_idx == Find(rest, next_seg.lit[1]) IN
               IF start_idx >= 0
               THEN MatchLoop(segments, k + 1, SliceFrom(rest, start_idx))
               ELSE MatchReturn("false", rest)

GlobMatches(segments, s) ==
  IF IsEmpty(segments) THEN MatchReturn("false", s)
  ELSE MatchLoop(segments, 1, s)

(***************************************************************************)
(* Inputs of the glob engine.                                              *)
(***************************************************************************)
GlobChars == {"a", "b", "*", "?", "\\"}

\* tokens and subjects named in the specification and in tests/glob.rs,
\* shortened to the two letters of the alphabet
ExampleTokens ==
  { <<"a", "*", "*", "b">>, <<"a", "*", "?", "b">>, <<"a", "?", "*", "b">>,
    <<"a", "*", "a", "b">>, <<"a", "\\", "*", "b">>, <<"a", "\\", "?", "\\", "?">> }
ExampleSubjects ==
  { <<"a", "a", "a", "b">>, <<"a", "b", "a", "b">>, <<"a", "b", "b", "a">>,
    <<"a", "*", "b", "a">> }

Tokens == SeqsUpTo(GlobChars, MaxTokenLen) \cup ExampleTokens
Subjects == SeqsUpTo(GlobChars, MaxSubjectLen) \cup ExampleSubjects

(***************************************************************************)
(* The glob engine as a state machine: a token is compiled, and the        *)
(* compiled glob is then asked about a subject.                            *)
(***************************************************************************)
NoGlob == GlobErr("not compiled")

GlobIdle ==
  /\ token = <<>>
  /\ glob = NoGlob
  /\ subject = <<>>
  /\ result = "none"
  /\ s_slice = <<>>

StripIdle ==
  /\ archive = <<>>
  /\ dry_run = FALSE
  /\ tar_xz_writer = <<>>
  /\ keep_count = 0
  /\ total_count = 0

DocIdle ==
  /\ source = <<>>
  /\ deb = "none"
  /\ copyright = "none"
  /\ path = <<>>
  /\ excluded = "none"

InitGlob ==
  /\ pc = "start"
  /\ token \in Tokens
  /\ glob = NoGlob
  /\ subject = <<>>
  /\ result = "none"
  /\ s_slice = <<>>
  /\ DocIdle
  /\ StripIdle

\* Glob::from_str(token) returns Ok
FromStrOk ==
  /\ pc = "start"
  /\ FromStr(token).ok
  /\ glob' = FromStr(token)
  /\ pc' = "compiled"
  /\ UNCHANGED <<token, subject, result, s_slice>>
  /\ UNCHANGED docVars
  /\ UNCHANGED stripVars

\* Glob::from_str(token) returns Err
FromStrErr ==
  /\ pc = "start"
  /\ ~FromStr(token).ok
  /\ glob' = FromStr(token)
  /\ pc' = "compile_error"
  /\ UNCHANGED <<token, subject, result, s_slice>>
  /\ UNCHANGED docVars
  /\ UNCHANGED stripVars

\* glob.matches(s)
Matches ==
  /\ pc = "compiled"
  /\ \E s \in Subjects :
       LET r == GlobMatches(glob.segments, s) IN
       /\ subject' = s
       /\ result' = r.result
       /\ s_slice' = r.s_slice
  /\ pc' = "matched"
  /\ UNCHANGED <<token, glob>>
  /\ UNCHANGED docVars
  /\ UNCHANGED stripVars

NextGlob == FromStrOk \/ FromStrErr \/ Matches

SpecGlob == InitGlob /\ [][NextGlob]_vars

(***************************************************************************)
(* More string helpers, used by the deb822 parser.                         *)
(***************************************************************************)
\* char::is_whitespace, the test behind str::trim and str::trim_start
IsWhitespace(c) == c \in {" ", "\t", "\n", "\r"}

\* const WHITESPACE: &[char] = &[' ', '\t'];
WHITESPACE == {" ", "\t"}

\* s.starts_with(set) for a set of chars
StartsWith(s, set) == s # <<>> /\ s[1] \in set

\* s.trim_start_matches(set)
RECURSIVE TrimStartMatches(_, _)
TrimStartMatches(s, set) ==
  IF s # <<>> /\ s[1] \in set THEN TrimStartMatches(Tail(s), set) ELSE s

\* s.trim_end_matches(set)
RECURSIVE TrimEndMatches(_, _)
TrimEndMatches(s, set) ==
  IF s # <<>> /\ s[Len(s)] \in set
  THEN TrimEndMatches(SubSeq(s, 1, Len(s) - 1), set)
  ELSE s

\* s.trim_matches(set)
TrimMatches(s, set) == TrimEndMatches(TrimStartMatches(s, set), set)

\* s.trim_start()
RECURSIVE TrimStart(_)
TrimStart(s) ==
  IF s # <<>> /\ IsWhitespace(s[1]) THEN TrimStart(Tail(s)) ELSE s

\* s.trim().is_empty()
TrimIsEmpty(s) == TrimStart(s) = <<>>

\* Option<T> as a sequence of no or one element
None == <<>>
Some(x) == <<x>>

(***************************************************************************)
(* src/src/deb822.rs                                                       *)
(***************************************************************************)
\* a &str that points into the source: its text and the byte offset of its
\* first character from the start of the source
LineAt(text, at) == [text |-> text, at |-> at]

\* s.split('\n'), from the i-th character on, the current piece starting at start
RECURSIVE SplitFrom(_, _, _)
SplitFrom(s, i, start) ==
  IF i > Len(s) THEN <<LineAt(SubSeq(s, start, Len(s)), start - 1)>>
  ELSE IF s[i] = "\n"
  THEN <<LineAt(SubSeq(s, start, i - 1), start - 1)>> \o SplitFrom(s, i + 1, i + 1)
  ELSE SplitFrom(s, i + 1, start)

SplitLines(s) == SplitFrom(s, 1, 1)

\* the filter of from_str: `!line.trim_start().starts_with('#')`
IsCommentUntrimmed(text) == StartsWith(text, {"#"})
IsComment(text) == StartsWith(TrimStart(text), {"#"})

NotComment(line) == ~IsComment(line.text)

Field(same_line_value, list_values) ==
  [same_line_value |-> same_line_value, list_values |-> list_values]

\* Field::iter_lines
IterLines(field) == field.same_line_value \o field.list_values

ParseErr(kind, fragment) ==
  [ok |-> FALSE, kind |-> kind, fragment |-> fragment, name |-> <<>>, prev |-> None]

DuplicateErr(fragment, name, prev) ==
  [ok |-> FALSE, kind |-> "duplicate key", fragment |-> fragment,
   name |-> name, prev |-> prev]

\* parse_field_oneliner
ParseFieldOneliner(top_line) ==
  LET colon == Find(top_line.text, ":") IN
  IF colon < 0
  THEN ParseErr("could not find colon in field header line", top_line)
  ELSE LET field_name == SubSeq(top_line.text, 1, colon)
           rest == TrimStartMatches(SliceFrom(top_line.text, colon + 1), WHITESPACE)
       IN [ok |-> TRUE, field_name |-> field_name,
           oneline_value |-> IF rest = <<>> THEN None ELSE Some(rest)]

\* parse_multiline_field_line(line).is_ok()
IsMultilineFieldLine(line) == StartsWith(line.text, WHITESPACE)

\* parse_multiline_field_line(line), when it is Ok
ParseMultilineFieldLine(line) == TrimMatches(line.text, WHITESPACE)

\* the map_while of eat_multiline_field_lines: the values of the leading
\* lines that parse as continuation lines
RECURSIVE MapWhileMultiline(_)
MapWhileMultiline(lines) ==
  IF lines # <<>> /\ IsMultilineFieldLine(lines[1])
  THEN <<ParseMultilineFieldLine(lines[1])>> \o MapWhileMultiline(Tail(lines))
  ELSE <<>>

\* eat_multiline_field_lines
EatMultilineFieldLines(lines) ==
  LET out == MapWhileMultiline(lines)
  IN [rest |-> SliceFrom(lines, Len(out)), list_values |-> out]

\* eat_field
EatField(lines) ==
  IF lines = <<>> THEN ParseErr("ran out of lines (impossible?)", LineAt(<<>>, 0))
  ELSE LET top_line == lines[1]
           rest_lines == Tail(lines)
       IN IF StartsWith(top_line.text, WHITESPACE)
          THEN ParseErr("field header must not start with whitespace", top_line)
          ELSE LET oneliner == ParseFieldOneliner(top_line) IN
               IF ~oneliner.ok THEN oneliner
               ELSE LET multi == EatMultilineFieldLines(rest_lines)
                    IN [ok |-> TRUE, rest |-> multi.rest,
                        field_name |-> oneliner.field_name,
                        field |-> Field(oneliner.oneline_value, multi.list_values)]

\* HashMap::insert: the map with the entry stored, and the value it replaced
InsertOverwriting(fields, name, field) ==
  [prev |-> None,
   fields |-> [n \in DOMAIN fields \cup {name} |->
                 IF n = name THEN field ELSE fields[n]]]
Insert(fields, name, field) ==
  [prev |-> IF name \in DOMAIN fields THEN Some(fields[name]) ELSE None,
   fields |-> [n \in DOMAIN fields \cup {name} |->
                 IF n = name THEN field ELSE fields[n]]]

\* the count of the leading lines for which line.trim().is_empty()
RECURSIVE CountBlank(_)
CountBlank(lines) ==
  IF lines # <<>> /\ TrimIsEmpty(lines[1].text)
  THEN 1 + CountBlank(Tail(lines))
  ELSE 0

EmptyFields == [n \in {} |-> None]

\* the `while !lines.is_empty()` loop of eat_stanza
RECURSIVE EatStanzaLoop(_, _)
EatStanzaLoop(lines, fields) ==
  IF lines = <<>> THEN [ok |-> TRUE, rest |-> lines, stanza |-> [fields |-> fields]]
  ELSE LET eaten == EatField(lines) IN
    IF ~eaten.ok THEN eaten
    ELSE LET inserted == Insert(fields, eaten.field_name, eaten.field) IN
      IF inserted.prev # None
      THEN DuplicateErr(lines[1], eaten.field_name, inserted.prev[1])
      ELSE IF eaten.rest # <<>> /\ TrimIsEmpty(eaten.rest[1].text)
      THEN LET nl_count == CountBlank(eaten.rest)
           IN [ok |-> TRUE, rest |-> SliceFrom(eaten.rest, nl_count),
               stanza |-> [fields |-> inserted.fields]]
      ELSE EatStanzaLoop(eaten.rest, inserted.fields)

\* eat_stanza
EatStanza(lines) == EatStanzaLoop(lines, EmptyFields)

\* the `while !lines_slice.is_empty()` loop of Deb822File::from_str
RECURSIVE StanzasLoop(_, _)
StanzasLoop(lines_slice, stanzas) ==
  IF lines_slice = <<>> THEN [ok |-> TRUE, stanzas |-> stanzas]
  ELSE LET eaten == EatStanza(lines_slice) IN
    IF ~eaten.ok THEN eaten
    ELSE StanzasLoop(eaten.rest, Append(stanzas, eaten.stanza))

\* Deb822File::from_str
Deb822FromStr(s) ==
  LET lines == SelectSeq(SplitLines(s), NotComment)
  IN StanzasLoop(lines, <<>>)

\* the byte indices of the newlines of the source that come before frag_offset
NewlinesBefore(src, frag_offset) ==
  {byte_idx \in 0..(Len(src) - 1) :
     src[byte_idx + 1] = "\n" /\ byte_idx < frag_offset}

SetMax(S) == CHOOSE x \in S : \A y \in S : y <= x

\* ParseMeta::find_fragment_row_col: the fragment's start is compared with
\* the start of the source; None is the empty sequence
FindFragmentRowCol(src, fragment) ==
  LET self_start == 0
      frag_start == fragment.at
      slice_ok == /\ self_start <= frag_start
                  /\ self_start + Len(src) >= frag_start + Len(fragment.text)
  IN IF ~slice_ok THEN None
     ELSE LET frag_offset == frag_start - self_start
              newlines == NewlinesBefore(src, frag_offset)
          IN IF newlines = {} THEN Some(<<0, 0>>)
             ELSE LET nl_count == Cardinality(newlines) - 1
                      last_nl_char_idx == SetMax(newlines)
                  IN Some(<<nl_count + 1, frag_offset - last_nl_char_idx>>)

\* ParseMeta::eyre: the error wrapped with "at {row + 1}:{col} ({fragment})";
\* "?" stands for an unknown position
Eyre(src, error) ==
  LET row_col == FindFragmentRowCol(src, error.fragment)
  IN [ok |-> FALSE, kind |-> error.kind, fragment |-> error.fragment,
      name |-> error.name, prev |-> error.prev,
      row |-> IF row_col # None THEN row_col[1][1] + 1 ELSE "?",
      col |-> IF row_col # None THEN row_col[1][2] ELSE "?"]

(***************************************************************************)
(* src/src/deb822/copyright.rs                                             *)
(***************************************************************************)
FilesExcluded ==
  <<"F", "i", "l", "e", "s", "-", "E", "x", "c", "l", "u", "d", "e", "d">>
UpstreamName ==
  <<"U", "p", "s", "t", "r", "e", "a", "m", "-", "N", "a", "m", "e">>

\* form.contains('*')
Contains(s, c) == Find(s, c) >= 0

\* the `for form in fex.iter_lines()` loop of CopyrightFile::new
RECURSIVE SortForms(_, _)
SortForms(forms, cs) ==
  IF forms = <<>> THEN cs
  ELSE LET form == forms[1] IN
    IF Contains(form, "*")
    THEN SortForms(Tail(forms),
           [cs EXCEPT !.files_excluded_wildcard = Append(@, form)])
    ELSE SortForms(Tail(forms),
           [cs EXCEPT !.files_excluded_normal = @ \cup {form}])

\* the closure of the filter_map of CopyrightFile::new
CopyrightStanza(deb_stanza) ==
  IF FilesExcluded \in DOMAIN deb_stanza.fields
  THEN LET fex == deb_stanza.fields[FilesExcluded]
           usn == IF UpstreamName \in DOMAIN deb_stanza.fields
                  THEN deb_stanza.fields[UpstreamName].same_line_value
                  ELSE None
       IN Some(SortForms(IterLines(fex),
                 [upstream_name |-> usn,
                  files_excluded_normal |-> {},
                  files_excluded_wildcard |-> <<>>]))
  ELSE None

RECURSIVE FilterMapStanzas(_)
FilterMapStanzas(stanzas) ==
  IF stanzas = <<>> THEN <<>>
  ELSE CopyrightStanza(stanzas[1]) \o FilterMapStanzas(Tail(stanzas))

\* CopyrightFile::recalculate_excludes
RecalculateExcludes(out) ==
  [out EXCEPT !.all_normal_excludes =
     UNION {out.stanzas[i].files_excluded_normal : i \in 1..Len(out.stanzas)}]

\* CopyrightFile::new: it has no path that returns Err
CopyrightNew(d) ==
  [ok |-> TRUE,
   file |-> RecalculateExcludes([stanzas |-> FilterMapStanzas(d.stanzas),
                                 all_normal_excludes |-> {}])]

\* CopyrightFile::is_path_excluded; to_string_lossy keeps a valid string as it is
IsPathExcluded(file, p) ==
  LET path_str == p IN
  IF path_str \in file.all_normal_excludes THEN FALSE
  ELSE LET any_match == \E i \in 1..Len(file.stanzas) : FALSE
       IN ~any_match

(***************************************************************************)
(* Inputs of the parser: documents of at most MaxLines lines, each taken   *)
(* from a vocabulary of lines, joined by newlines.                         *)
(***************************************************************************)
Foo == <<"f", "o", "o">>
Bar == <<"b", "a", "r">>
Baz == <<"b", "a", "z">>
Qux == <<"q", "u", "x">>
BarBaz == Bar \o <<" ">> \o Baz
StarTmp == <<"*", ".", "t", "m", "p">>
BuildXTmp == <<"b", "u", "i", "l", "d", "/", "x", ".", "t", "m", "p">>
BuildXTxt == <<"b", "u", "i", "l", "d", "/", "x", ".", "t", "x", "t">>
AStarStarB == <<"a", "*", "*", "b">>

LineVocab ==
  { FilesExcluded \o <<":", " ">> \o Foo,
    FilesExcluded \o <<":", " ">> \o StarTmp,
    FilesExcluded \o <<":", " ">> \o AStarStarB,
    FilesExcluded \o <<":">>,
    UpstreamName \o <<":", " ">> \o <<"x">>,
    <<" ">> \o BarBaz,
    <<" ">> \o Qux,
    <<>>,
    <<" ">>,
    <<"#", " ">> \o Foo,
    <<" ", "#">>,
    Foo }

RECURSIVE Join(_)
Join(ls) ==
  IF Len(ls) = 1 THEN ls[1] ELSE ls[1] \o <<"\n">> \o Join(Tail(ls))

Documents == {Join(ls) : ls \in SeqsUpTo(LineVocab, MaxLines) \ {<<>>}}

Paths == {Foo, Bar, BarBaz, BuildXTmp, BuildXTxt}

(***************************************************************************)
(* The extraction as a state machine: the document is parsed, the policy   *)
(* is built from the parsed document, and the policy is asked about paths. *)
(***************************************************************************)
InitDoc ==
  /\ pc = "start"
  /\ source \in Documents
  /\ deb = "none"
  /\ copyright = "none"
  /\ path = <<>>
  /\ excluded = "none"
  /\ GlobIdle
  /\ StripIdle

\* Deb822File::from_str(source) returns Ok
ParseOk ==
  /\ pc = "start"
  /\ Deb822FromStr(source).ok
  /\ deb' = Deb822FromStr(source)
  /\ pc' = "parsed"
  /\ UNCHANGED <<source, copyright, path, excluded>>
  /\ UNCHANGED globVars
  /\ UNCHANGED stripVars

\* Deb822File::from_str(source) returns Err
ParseError ==
  /\ pc = "start"
  /\ ~Deb822FromStr(source).ok
  /\ deb' = Eyre(source, Deb822FromStr(source))
  /\ pc' = "parse_error"
  /\ UNCHANGED <<source, copyright, path, excluded>>
  /\ UNCHANGED globVars
  /\ UNCHANGED stripVars

\* CopyrightFile::new(deb)
NewCopyright ==
  /\ pc = "parsed"
  /\ copyright' = CopyrightNew(deb)
  /\ pc' = "built"
  /\ UNCHANGED <<source, deb, path, excluded>>
  /\ UNCHANGED globVars
  /\ UNCHANGED stripVars

\* copyright.is_path_excluded(p), any number of times
QueryPath ==
  /\ pc \in {"built", "queried"}
  /\ \E p \in Paths :
       /\ path' = p
       /\ excluded' = IsPathExcluded(copyright.file, p)
  /\ pc' = "queried"
  /\ UNCHANGED <<source, deb, copyright>>
  /\ UNCHANGED globVars
  /\ UNCHANGED stripVars

NextDoc == ParseOk \/ ParseError \/ NewCopyright \/ QueryPath

SpecDoc == InitDoc /\ [][NextDoc]_vars

(***************************************************************************)
(* src/src/strip.rs                                                        *)
(***************************************************************************)
\* the pieces of a path between its `/` separators, empty pieces included
RECURSIVE SplitSlash(_, _)
SplitSlash(s, piece) ==
  IF s = <<>> THEN <<piece>>
  ELSE IF s[1] = "/" THEN <<piece>> \o SplitSlash(Tail(s), <<>>)
  ELSE SplitSlash(Tail(s), Append(piece, s[1]))

\* Path::components: repeated separators and a trailing separator are
\* ignored, `.` is a component only at the start of a relative path, and a
\* leading `/` is the root component
RECURSIVE NormalPieces(_, _)
NormalPieces(pieces, first) ==
  IF pieces = <<>> THEN <<>>
  ELSE IF pieces[1] = <<>> THEN NormalPieces(Tail(pieces), first)
  ELSE IF pieces[1] = <<".">> /\ ~first THEN NormalPieces(Tail(pieces), FALSE)
  ELSE <<pieces[1]>> \o NormalPieces(Tail(pieces), FALSE)

Components(p) ==
  IF StartsWith(p, {"/"})
  THEN <<<<"/">>>> \o NormalPieces(SplitSlash(p, <<>>), FALSE)
  ELSE NormalPieces(SplitSlash(p, <<>>), TRUE)

\* components.collect::<PathBuf>(), for components that hold no root
RECURSIVE CollectPath(_)
CollectPath(components) ==
  IF components = <<>> THEN <<>>
  ELSE IF Len(components) = 1 THEN components[1]
  ELSE components[1] \o <<"/">> \o CollectPath(Tail(components))

\* checked_path: real_path.components().skip(1).collect()
CheckedPathWhole(real_path) == CollectPath(Components(real_path))
CheckedPath(real_path) == CollectPath(Tail(Components(real_path)))

\* the copyright files and the archives Strip runs on
StripDocuments ==
  { FilesExcluded \o <<":", " ">> \o Foo,
    Join(<<FilesExcluded \o <<":">>, <<" ">> \o Foo, <<" ">> \o Bar>>),
    UpstreamName \o <<":", " ">> \o <<"x">>,
    Foo }

EntryPaths ==
  { <<"p", "/">> \o Foo,
    <<"p", "/">> \o Bar,
    <<"p", "/", "/">> \o Foo,
    <<"p", "/", ".", "/">> \o Bar,
    <<"p", "/">> \o Foo \o <<"/">> \o Bar,
    Foo }

Archives == SeqsUpTo(EntryPaths, MaxEntries)

InitStrip ==
  /\ pc = "start"
  /\ source \in StripDocuments
  /\ archive \in Archives
  /\ dry_run \in BOOLEAN
  /\ deb = "none"
  /\ copyright = "none"
  /\ path = <<>>
  /\ excluded = "none"
  /\ tar_xz_writer = None
  /\ keep_count = 0
  /\ total_count = 0
  /\ GlobIdle

\* do_it up to its loop: CopyrightFile::from_str succeeds, the input is
\* opened and, unless dry_run is set, so is the writer
StripOpen ==
  /\ pc = "start"
  /\ Deb822FromStr(source).ok
  /\ deb' = Deb822FromStr(source)
  /\ copyright' = CopyrightNew(Deb822FromStr(source))
  /\ tar_xz_writer' = IF dry_run THEN None ELSE Some(<<>>)
  /\ keep_count' = 0
  /\ total_count' = 0
  /\ pc' = "loop"
  /\ UNCHANGED <<source, path, excluded, archive, dry_run>>
  /\ UNCHANGED globVars

\* do_it returns the error of CopyrightFile::from_str
StripParseError ==
  /\ pc = "start"
  /\ ~Deb822FromStr(source).ok
  /\ deb' = Eyre(source, Deb822FromStr(source))
  /\ pc' = "failed"
  /\ UNCHANGED <<source, copyright, path, excluded>>
  /\ UNCHANGED stripVars
  /\ UNCHANGED globVars

\* one turn of the loop over the entries, for an entry that is kept
StripKeep ==
  /\ pc = "loop"
  /\ total_count < Len(archive)
  /\ LET real_path == archive[total_count + 1]
         checked_path == CheckedPath(real_path)
         exclude == IsPathExcluded(copyright.file, checked_path)
     IN /\ ~exclude
        /\ path' = checked_path
        /\ excluded' = exclude
        /\ keep_count' = keep_count + 1
        /\ tar_xz_writer' = IF tar_xz_writer # None
                            THEN Some(Append(tar_xz_writer[1], real_path))
                            ELSE tar_xz_writer
  /\ total_count' = total_count + 1
  /\ UNCHANGED <<pc, source, deb, copyright, archive, dry_run>>
  /\ UNCHANGED globVars

\* one turn of the loop over the entries, for an entry that is excluded
StripExclude ==
  /\ pc = "loop"
  /\ total_count < Len(archive)
  /\ LET real_path == archive[total_count + 1]
         checked_path == CheckedPath(real_path)
         exclude == IsPathExcluded(copyright.file, checked_path)
     IN /\ exclude
        /\ path' = checked_path
        /\ excluded' = exclude
  /\ total_count' = total_count + 1
  /\ UNCHANGED <<pc, source, deb, copyright, archive, dry_run,
                 tar_xz_writer, keep_count>>
  /\ UNCHANGED globVars

\* the next entry is malformed or has no path: do_it returns the error
\* before it has counted the entry
StripEntryError ==
  /\ pc = "loop"
  /\ total_count < Len(archive)
  /\ pc' = "failed"
  /\ UNCHANGED docVars
  /\ UNCHANGED stripVars
  /\ UNCHANGED globVars

\* append_data fails on an entry that is kept: do_it returns the error
\* after keep_count += 1 and before total_count += 1
StripAppendError ==
  /\ pc = "loop"
  /\ total_count < Len(archive)
  /\ tar_xz_writer # None
  /\ LET real_path == archive[total_count + 1]
         checked_path == CheckedPath(real_path)
         exclude == IsPathExcluded(copyright.file, checked_path)
     IN /\ ~exclude
        /\ path' = checked_path
        /\ excluded' = exclude
  /\ keep_count' = keep_count + 1
  /\ pc' = "failed"
  /\ UNCHANGED <<source, deb, copyright, archive, dry_run,
                 tar_xz_writer, total_count>>
  /\ UNCHANGED globVars

\* the entries are exhausted: the writer is finished and do_it returns Ok
StripFinish ==
  /\ pc = "loop"
  /\ total_count = Len(archive)
  /\ pc' = "done"
  /\ UNCHANGED docVars
  /\ UNCHANGED stripVars
  /\ UNCHANGED globVars

NextStrip ==
  \/ StripOpen \/ StripParseError \/ StripKeep \/ StripExclude
  \/ StripEntryError \/ StripAppendError \/ StripFinish

SpecStrip == InitStrip /\ [][NextStrip]_vars

(***************************************************************************)
(* Claims about the glob engine, checked under SpecGlob.                   *)
(***************************************************************************)
Special == {"*", "?", "\\"}

WildcardFree(s) == \A i \in 1..Len(s) : s[i] \notin Special

IsSuffix(back, s) ==
  Len(back) <= Len(s) /\ SubSeq(s, Len(s) - Len(back) + 1, Len(s)) = back

LastSegment == glob.segments[Len(glob.segments)]

\* C3 as stated: Glob::matches is a both-ends-anchored full match: when it
\* returns true for a pattern that does not end in a Star, the segments have
\* consumed the subject exactly and nothing is left over.
C3_FullMatch ==
  (pc = "matched" /\ result = "true" /\ LastSegment.kind # "Star")
    => s_slice = <<>>

\* C3 amended: Glob::matches is anchored at the start only.  A wildcard-free
\* pattern matches exactly the subjects that start with it (characters left
\* over after the last segment are allowed), and a pattern that matches a
\* subject matches every extension of that subject.
C3_StartAnchored ==
  pc = "matched" =>
    /\ (Len(glob.segments) = 1 /\ glob.segments[1].kind = "Literal")
         => (result = "true" <=> IsPrefix(glob.segments[1].lit, subject))
    /\ result = "true"
         => \A c \in GlobChars :
              GlobMatches(glob.segments, Append(subject, c)).result = "true"

\* the pattern ab has matched the subject aba, leaving a over
C3_Witness ==
  /\ pc = "matched"
  /\ token = <<"a", "b">>
  /\ subject = <<"a", "b", "a">>
  /\ result = "true"
  /\ s_slice = <<"a">>

\* t is s with the characters at some positions replaced by `?`
QuestionSubstitution(t, s) ==
  /\ WildcardFree(s)
  /\ Len(t) = Len(s)
  /\ \A i \in 1..Len(s) : t[i] = s[i] \/ t[i] = "?"

\* C4: a token obtained from a string free of `*`, `?`, `\` by replacing any
\* subset of its characters with `?` compiles, and the compiled pattern
\* matches the original string (stated for non-empty strings, as in
\* tests/glob.rs).
C4_QuestionSubstitution ==
  /\ (pc = "compile_error" =>
        ~ \E s \in Subjects : QuestionSubstitution(token, s))
  /\ (pc = "matched" /\ subject # <<>> /\ QuestionSubstitution(token, subject))
        => result = "true"

\* t is front*back and s is front + center + back, all three wildcard-free
\* (front non-empty, as in tests/glob.rs)
StarSplice(t, s) ==
  \E i \in 1..Len(t) :
    LET front == SubSeq(t, 1, i - 1)
        back == SubSeq(t, i + 1, Len(t))
    IN /\ t[i] = "*"
       /\ front # <<>>
       /\ WildcardFree(front) /\ WildcardFree(back) /\ WildcardFree(s)
       /\ Len(front) + Len(back) <= Len(s)
       /\ IsPrefix(front, s)
       /\ IsSuffix(back, s)

\* C5: the pattern compiled from front*back matches front + center + back
\* for all wildcard-free front, center and back.
C5_StarSplice ==
  (pc = "matched" /\ StarSplice(token, subject)) => result = "true"

\* s with a backslash put before every `\`, `*` and `?`
RECURSIVE Escape(_)
Escape(s) ==
  IF s = <<>> THEN <<>>
  ELSE (IF s[1] \in Special THEN <<"\\", s[1]>> ELSE <<s[1]>>) \o Escape(Tail(s))

\* C6: for every non-empty string s, the token that escapes every `\`, `*`
\* and `?` of s compiles, and the compiled pattern matches s.
C6_IdentityEscape ==
  /\ (pc = "compile_error" =>
        ~ \E s \in Subjects : s # <<>> /\ token = Escape(s))
  /\ (pc = "matched" /\ subject # <<>> /\ token = Escape(subject))
        => (result = "true" /\ glob.segments = <<Literal(subject)>>)

\* the token a\*b has matched the subject a*b
C6_Witness ==
  /\ pc = "matched"
  /\ token = <<"a", "\\", "*", "b">>
  /\ subject = <<"a", "*", "b">>
  /\ result = "true"

\* the i-th character of tok follows an escaping backslash
RECURSIVE Escaped(_, _)
Escaped(tok, i) == i > 1 /\ tok[i - 1] = "\\" /\ ~Escaped(tok, i - 1)

\* an unescaped `*` immediately followed by an unescaped `*` or `?`
HasStarAdjacency(tok) ==
  \E i \in 1..(Len(tok) - 1) :
    tok[i] = "*" /\ ~Escaped(tok, i) /\ tok[i + 1] \in {"*", "?"}

\* C7: from_str returns an error for every token with an unescaped `*`
\* directly followed by an unescaped `*` or `?`; in every Glob it returns,
\* each Star is the last segment or is followed by a non-empty Literal; and
\* matches never reaches either of its panics.
C7_AdjacencyRejected ==
  /\ (pc # "start" /\ HasStarAdjacency(token)) => ~glob.ok
  /\ pc \in {"compiled", "matched"} =>
       \A k \in 1..Len(glob.segments) :
         glob.segments[k].kind = "Star" =>
           \/ k = Len(glob.segments)
           \/ /\ glob.segments[k + 1].kind = "Literal"
              /\ glob.segments[k + 1].lit # <<>>
  /\ pc = "matched" => result \in {"true", "false"}

\* from_str has rejected a*?b
C7_Witness ==
  /\ pc = "compile_error"
  /\ token = <<"a", "*", "?", "b">>
  /\ glob.err = "cannot have a star next to another wildcard"

(***************************************************************************)
(* Claims about the parser and the exclusion policy, checked under         *)
(* SpecDoc.                                                                *)
(***************************************************************************)
\* line.split_ascii_whitespace(): the non-empty runs of non-blank characters
RECURSIVE SplitAsciiWhitespace(_, _)
SplitAsciiWhitespace(s, word) ==
  IF s = <<>> THEN (IF word = <<>> THEN {} ELSE {word})
  ELSE IF IsWhitespace(s[1])
  THEN (IF word = <<>> THEN {} ELSE {word}) \cup SplitAsciiWhitespace(Tail(s), <<>>)
  ELSE SplitAsciiWhitespace(Tail(s), Append(word, s[1]))

\* the value lines of the Files-Excluded fields of a parsed document
ExcludedLines(d) ==
  UNION { LET lines == IterLines(d.stanzas[i].fields[FilesExcluded])
          IN {lines[k] : k \in 1..Len(lines)}
          : i \in {j \in 1..Len(d.stanzas) :
                     FilesExcluded \in DOMAIN d.stanzas[j].fields} }

\* the pattern tokens of a parsed document
DocTokens(d) == UNION {SplitAsciiWhitespace(l, <<>>) : l \in ExcludedLines(d)}

\* the entries a policy holds
PolicyEntries(file) ==
  UNION { file.stanzas[i].files_excluded_normal
            \cup {file.stanzas[i].files_excluded_wildcard[k] :
                    k \in 1..Len(file.stanzas[i].files_excluded_wildcard)}
          : i \in 1..Len(file.stanzas) }

TokenMatches(t, p) ==
  FromStr(t).ok /\ GlobMatches(FromStr(t).segments, p).result = "true"

\* C1: is_path_excluded(path) is true if and only if at least one pattern
\* gathered from the Files-Excluded fields of the document matches the path.
C1_ExcludedIffMatched ==
  pc = "queried" =>
    (excluded <=> \E t \in DocTokens(deb) : TokenMatches(t, path))

TwoStanzaDocument ==
  Join(<< UpstreamName \o <<":", " ">> \o <<"x">>,
          <<>>,
          FilesExcluded \o <<":", " ">> \o StarTmp >>)

\* C2: for the two-stanza document whose second stanza alone has
\* Files-Excluded: *.tmp, the policy excludes build/x.tmp and does not
\* exclude build/x.txt.
C2_EndToEnd ==
  (pc = "queried" /\ source = TwoStanzaDocument) =>
    /\ path = BuildXTmp => excluded = TRUE
    /\ path = BuildXTxt => excluded = FALSE

\* C8: the policy holds one entry per whitespace-separated token of every
\* value line of every Files-Excluded field (stated for fields without an
\* empty value line).
C8_TokensPerLine ==
  (pc \in {"built", "queried"} /\ <<>> \notin ExcludedLines(deb)) =>
    PolicyEntries(copyright.file) = DocTokens(deb)

\* C9: CopyrightFile::new returns a policy only if every Files-Excluded
\* token of the document compiles as a pattern.
C9_BuildFailsOnBadToken ==
  pc \in {"built", "queried"} =>
    \A t \in DocTokens(deb) : FromStr(t).ok

\* the lines the grammar sees: the source's lines without the comment lines
GrammarLines == SelectSeq(SplitLines(source), NotComment)

\* a blank line that ends a stanza: empty once trimmed, and not indented
\* (an indented line after a field is a continuation line of that field)
IsBoundary(line) == TrimIsEmpty(line.text) /\ ~StartsWith(line.text, WHITESPACE)

\* a field header: not indented and not blank
IsHeader(line) == ~TrimIsEmpty(line.text) /\ ~StartsWith(line.text, WHITESPACE)

HasColon(line) == Contains(line.text, ":")

\* the text before the first `:`
HeaderName(line) == SubSeq(line.text, 1, Find(line.text, ":"))

\* lines i and j, both headers with a colon, belong to one stanza and carry
\* the same field name
Duplicate(ls, i, j) ==
  /\ i < j
  /\ IsHeader(ls[i]) /\ HasColon(ls[i])
  /\ IsHeader(ls[j]) /\ HasColon(ls[j])
  /\ HeaderName(ls[i]) = HeaderName(ls[j])
  /\ \A k \in i..j : ~IsBoundary(ls[k])

HasDuplicate(ls) == \E i, j \in 1..Len(ls) : Duplicate(ls, i, j)

\* line m belongs to the run of blank lines that follows a stanza
RECURSIVE InBlankRun(_, _)
InBlankRun(ls, m) ==
  /\ m >= 1
  /\ TrimIsEmpty(ls[m].text)
  /\ (IsBoundary(ls[m]) \/ InBlankRun(ls, m - 1))

\* no line is malformed in another way: the text starts with a header,
\* every header has a colon, and a stanza does not start with an indented line
WellFormed(ls) ==
  /\ ls # <<>>
  /\ IsHeader(ls[1])
  /\ \A k \in 1..Len(ls) : IsHeader(ls[k]) => HasColon(ls[k])
  /\ \A k \in 2..Len(ls) :
       (StartsWith(ls[k].text, WHITESPACE) /\ ~TrimIsEmpty(ls[k].text))
         => ~InBlankRun(ls, k - 1)

\* the number of fields a parsed document holds
RECURSIVE CountFields(_)
CountFields(stanzas) ==
  IF stanzas = <<>> THEN 0
  ELSE Cardinality(DOMAIN stanzas[1].fields) + CountFields(Tail(stanzas))

\* C10: a field name that occurs twice in one stanza makes the whole parse
\* fail, with an error that names the duplicate field and the value stored
\* for it before; no field of a returned document has been overwritten; and
\* the same name in two different stanzas is accepted.
C10_DuplicateFieldRejected ==
  pc \in {"parsed", "parse_error"} =>
    LET ls == GrammarLines IN
    /\ HasDuplicate(ls) => ~deb.ok
    /\ deb.ok =>
         CountFields(deb.stanzas) = Cardinality({k \in 1..Len(ls) : IsHeader(ls[k])})
    /\ (~deb.ok /\ deb.kind = "duplicate key") =>
         \E i, j \in 1..Len(ls) :
           /\ Duplicate(ls, i, j)
           /\ deb.fragment = ls[j]
           /\ deb.name = HeaderName(ls[j])
           /\ deb.prev = EatField(SliceFrom(ls, i - 1)).field
    /\ (WellFormed(ls) /\ HasDuplicate(ls)) => (~deb.ok /\ deb.kind = "duplicate key")
    /\ (WellFormed(ls) /\ ~HasDuplicate(ls)) => deb.ok

\* the second Files-Excluded header of one stanza has been rejected, the
\* error carrying the name and the field stored before (foo, and bar baz)
C10_Witness ==
  /\ pc = "parse_error"
  /\ source = Join(<< FilesExcluded \o <<":", " ">> \o Foo,
                      <<" ">> \o BarBaz,
                      FilesExcluded \o <<":", " ">> \o StarTmp >>)
  /\ deb.kind = "duplicate key"
  /\ deb.name = FilesExcluded
  /\ deb.prev = Field(Some(Foo), <<BarBaz>>)

\* the same name in two stanzas has been accepted
C10_TwoStanzas ==
  /\ pc = "parsed"
  /\ source = Join(<< FilesExcluded \o <<":", " ">> \o Foo,
                      <<>>,
                      FilesExcluded \o <<":", " ">> \o StarTmp >>)
  /\ Len(deb.stanzas) = 2

\* the number (from 1) of the line of the source, comment lines counted,
\* that starts at byte offset at
LineNumberAt(src, at) ==
  CHOOSE k \in 1..Len(SplitLines(src)) : SplitLines(src)[k].at = at

\* C11: every parse error carries the position of the failing line in the
\* original text: the row is the number of the line counted from 1, comment
\* lines included, and the column of a whole line is 0.
C11_ErrorPosition ==
  pc = "parse_error" =>
    /\ deb.row = LineNumberAt(source, deb.fragment.at)
    /\ deb.col = 0

\* the first character of text that is not whitespace is `#`
FirstNonWhitespaceIsHash(text) ==
  \E i \in 1..Len(text) :
    text[i] = "#" /\ \A j \in 1..(i - 1) : IsWhitespace(text[j])

\* the texts of the lines of ls that are not comment lines, in order
RECURSIVE WithoutCommentLines(_)
WithoutCommentLines(ls) ==
  IF ls = <<>> THEN <<>>
  ELSE (IF FirstNonWhitespaceIsHash(ls[1].text) THEN <<>> ELSE <<ls[1].text>>)
         \o WithoutCommentLines(Tail(ls))

\* C12: comment lines are invisible to the grammar.  The parse of a source
\* agrees with the parse of the same source with every comment line deleted
\* (so any two sources that differ only in comment lines parse alike): the
\* same success or failure, the same stanzas and field values, and on
\* failure the same error about the same line text.  Stated for sources that
\* keep at least one line, a text never having fewer than one line.
C12_CommentsInvisible ==
  pc \in {"parsed", "parse_error"} =>
    LET kept == WithoutCommentLines(SplitLines(source)) IN
    kept # <<>> =>
      LET bare == Deb822FromStr(Join(kept)) IN
      /\ bare.ok = deb.ok
      /\ deb.ok => bare.stanzas = deb.stanzas
      /\ ~deb.ok => /\ bare.kind = deb.kind
                    /\ bare.name = deb.name
                    /\ bare.prev = deb.prev
                    /\ bare.fragment.text = deb.fragment.text

\* a comment line and an indented comment line stand between a field header
\* and its continuation line, which still belongs to the field
C12_Witness ==
  /\ pc = "parsed"
  /\ source = Join(<< FilesExcluded \o <<":", " ">> \o Foo,
                      <<"#", " ">> \o Foo,
                      <<" ", "#">>,
                      <<" ">> \o BarBaz >>)
  /\ Len(deb.stanzas) = 1
  /\ deb.stanzas[1].fields[FilesExcluded] = Field(Some(Foo), <<BarBaz>>)

\* a blank line, by the test eat_stanza uses at the stanza boundary
IsBlank(line) == TrimIsEmpty(line.text)

\* line k is the first line of a group of fields
StartsGroup(ls, k) == ~IsBlank(ls[k]) /\ (k = 1 \/ IsBlank(ls[k - 1]))

\* the number of the group that line k belongs to
GroupOf(ls, k) == Cardinality({m \in 1..k : StartsGroup(ls, m)})

NumGroups(ls) == Cardinality({m \in 1..Len(ls) : StartsGroup(ls, m)})

\* line k is the header of a field: not blank and not indented
IsFieldHeader(ls, k) == ~IsBlank(ls[k]) /\ ~StartsWith(ls[k].text, WHITESPACE)

\* the text is groups of fields separated by runs of blank lines: it starts
\* with a group, every group starts with a header, every header has a
\* colon, and no group holds a field name twice
GroupsOfFields(ls) ==
  /\ ls # <<>>
  /\ ~IsBlank(ls[1])
  /\ \A k \in 1..Len(ls) :
       /\ StartsGroup(ls, k) => IsFieldHeader(ls, k)
       /\ IsFieldHeader(ls, k) => HasColon(ls[k])
  /\ \A i, j \in 1..Len(ls) :
       (/\ i < j
        /\ IsFieldHeader(ls, i) /\ IsFieldHeader(ls, j)
        /\ GroupOf(ls, i) = GroupOf(ls, j))
         => HeaderName(ls[i]) # HeaderName(ls[j])

\* C13: a run of one or more blank lines (empty once trimmed) after a field
\* ends the stanza, so a text of k groups of fields separated by such runs
\* parses to exactly k stanzas in source order, each holding exactly the
\* fields of its group.
C13_BlankRunsSeparateStanzas ==
  (pc \in {"parsed", "parse_error"} /\ GroupsOfFields(GrammarLines)) =>
    LET ls == GrammarLines IN
    /\ deb.ok
    /\ Len(deb.stanzas) = NumGroups(ls)
    /\ \A g \in 1..Len(deb.stanzas) :
         DOMAIN deb.stanzas[g].fields =
           {HeaderName(ls[k]) :
              k \in {m \in 1..Len(ls) : IsFieldHeader(ls, m) /\ GroupOf(ls, m) = g}}

(***************************************************************************)
(* More claims about the glob engine, checked under SpecGlob.              *)
(***************************************************************************)
\* C14: from_str rejects a wildcard only when it directly follows a `*`;
\* a?*b compiles to Literal a, Question, Star, Literal b and ??? compiles
\* to Question, Question, Question.
C14_WildcardRejectedOnlyAfterStar ==
  /\ (pc = "compile_error"
        /\ glob.err = "cannot have a star next to another wildcard")
       => HasStarAdjacency(token)
  /\ (pc # "start" /\ token = <<"a", "?", "*", "b">>)
       => glob = GlobOk(<<Literal(<<"a">>), Question, Star, Literal(<<"b">>)>>)
  /\ (pc # "start" /\ token = <<"?", "?", "?">>)
       => glob = GlobOk(<<Question, Question, Question>>)

\* the i-th character of tok is a backslash that starts an escape
IsEscaping(tok, i) == tok[i] = "\\" /\ ~Escaped(tok, i)

\* an escaping backslash that is not followed by `\`, `*` or `?`
HasIllegalEscape(tok) ==
  \E i \in 1..Len(tok) :
    IsEscaping(tok, i) /\ (i = Len(tok) \/ tok[i + 1] \notin Special)

\* the characters a compiled pattern stands for, one per wildcard
RECURSIVE Rendered(_)
Rendered(segments) ==
  IF segments = <<>> THEN <<>>
  ELSE (CASE segments[1].kind = "Literal" -> segments[1].lit
          [] segments[1].kind = "Star" -> <<"*">>
          [] segments[1].kind = "Question" -> <<"?">>)
       \o Rendered(Tail(segments))

\* tok without its escaping backslashes
Unescaped(tok) ==
  LET keep == {i \in 1..Len(tok) : ~IsEscaping(tok, i)}
      Nth(n) == CHOOSE i \in keep : Cardinality({j \in keep : j < i}) = n - 1
  IN [n \in 1..Cardinality(keep) |-> tok[Nth(n)]]

\* C15: from_str returns an error for every token with an escaping backslash
\* that is not followed by `\`, `*` or `?`, a trailing backslash included;
\* and a successful compile drops nothing but the backslashes of legal
\* escape pairs.
C15_IllegalEscapeRejected ==
  /\ (pc # "start" /\ HasIllegalEscape(token)) => ~glob.ok
  /\ pc \in {"compiled", "matched"} =>
       /\ ~HasIllegalEscape(token)
       /\ Rendered(glob.segments) = Unescaped(token)

(***************************************************************************)
(* Claims about Strip::do_it, checked under SpecStrip.                     *)
(***************************************************************************)
\* the names between the separators of a path, without the empty ones and
\* without `.`
RECURSIVE Names(_, _)
Names(p, name) ==
  LET done == IF name = <<>> \/ name = <<".">> THEN <<>> ELSE <<name>> IN
  IF p = <<>> THEN done
  ELSE IF p[1] = "/" THEN done \o Names(Tail(p), <<>>)
  ELSE Names(Tail(p), Append(name, p[1]))

RECURSIVE SlashJoined(_)
SlashJoined(names) ==
  IF names = <<>> THEN <<>>
  ELSE IF Len(names) = 1 THEN names[1]
  ELSE names[1] \o <<"/">> \o SlashJoined(Tail(names))

\* the path of an entry with its first component removed
FirstComponentRemoved(p) == SlashJoined(Tail(Names(p, <<>>)))

\* is_path_excluded, asked about the entry without its first component,
\* returns false
KeptEntry(real_path) ==
  ~IsPathExcluded(copyright.file, FirstComponentRemoved(real_path))

\* C16: do_it visits the entries once each in archive order; after any
\* number of entries the output holds exactly the processed entries for
\* which is_path_excluded returned false, in input order and under their
\* original paths; keep_count is their number and never exceeds
\* total_count; with dry_run set nothing is written.
C16_StripFilters ==
  pc \in {"loop", "done"} =>
    LET processed == SubSeq(archive, 1, total_count) IN
    /\ total_count <= Len(archive)
    /\ pc = "done" => total_count = Len(archive)
    /\ total_count > 0 =>
         /\ path = FirstComponentRemoved(archive[total_count])
         /\ excluded = ~KeptEntry(archive[total_count])
    /\ keep_count = Len(SelectSeq(processed, KeptEntry))
    /\ keep_count <= total_count
    /\ dry_run => tar_xz_writer = None
    /\ ~dry_run => tar_xz_writer = Some(SelectSeq(processed, KeptEntry))

\* do_it has finished an archive of three entries of which it wrote the
\* first and the third, under their original paths
C16_Witness ==
  /\ pc = "done"
  /\ ~dry_run
  /\ archive = << <<"p", "/", "/">> \o Foo, <<"p", "/">> \o Bar, <<"p", "/">> \o Foo >>
  /\ total_count = 3
  /\ keep_count = 2
  /\ tar_xz_writer = Some(<< <<"p", "/", "/">> \o Foo, <<"p", "/">> \o Foo >>)

====
